---- MODULE Spec2Model ----
(***************************************************************************)
(* Andikar backend: accounts, plan-gated text processing, usage ledger and *)
(* simulated payments.                                                     *)
(*                                                                         *)
(* The store (users, usage_logs, transactions tables of src/db.js) is the  *)
(* only shared state.  Every HTTP request is a process that advances from  *)
(* one await point of its handler to the next; requests interleave at      *)
(* those points.  Every store query may fail (the database is reached over *)
(* the network), which the environment chooses.                            *)
(*                                                                         *)
(* Specifications sharing the state:                                       *)
(*   AppSpec    the application as index.js assembles it: the routes of    *)
(*              index.js first, then the routers, each behind the coded    *)
(*              middleware `protect`;                                      *)
(*   Spec       the handlers of the api router of src/routes/auth.js       *)
(*              (lines 165-527, written against the PostgreSQL models of   *)
(*              the sources) behind the Auth Gate of the design            *)
(*              (AuthGate), which attaches the loaded account as req.user; *)
(*   SeqSpec    the handlers of Spec with one request at a time;           *)
(*   TextSpec   the registration and humanize handlers of Spec, one        *)
(*              request at a time, over every text up to MaxTextLen;       *)
(*   StrictSpec the handlers of the api router of src/routes/api.js,       *)
(*              whose store accesses are not wrapped;                      *)
(*   UsageSpec  GET /usage over the ledgers the handlers can leave;        *)
(*   DetectSpec the detect handler with the external scorers of            *)
(*              src/services/detector.js, DetectLive with the server's     *)
(*              fairness;                                                  *)
(*   ScoreSpec  one detect request with the scores of the local heuristic. *)
(* Of the two User classes of src/models/User.js the model follows the     *)
(* second (lines 128-288).                                                 *)
(***************************************************************************)
EXTENDS Integers, Sequences, FiniteSets, TLC

(* ------------------------------ bounds -------------------------------- *)
\* Requests the model admits in one run (each slot serves one request).
NumRequests == 3
\* Longest request text, in characters.
MaxTextLen == 4
\* Word limits of the plans, scaled down so that bounded texts can exceed
\* them (src/config.js has 500 / 1500 / 8000; the order is kept).
FreeWordLimit == 1
BasicWordLimit == 2
PremiumWordLimit == 3
\* Most events GET /usage lists, scaled down from 100.
UsageLogLimit == 2
\* Longest ledger a run of the usage queries starts from.
MaxLedger == 3
\* Most pieces a scored text is built from.
MaxPieces == 3

\* Units per point of lengthUniformity, and per unit of the multiplier.
LuScale == 1000
MultiplierScale == 10000

\* randomizer = 0.85 + Math.random() * 0.3, in units of 1 / MultiplierScale
MinMultiplier == 8500
MaxMultiplier == 11500

(* ------------------------- program constants -------------------------- *)
FreePrice == 0
BasicPrice == 500
PremiumPrice == 2000

Slots == 1..NumRequests

(* ------------------------------- texts -------------------------------- *)
\* A text is a sequence of characters; "a" stands for any non-whitespace
\* character and " " for any whitespace character.
Chars == {"a", " "}

IsWs(c) == c = " "

RECURSIVE SeqsUpTo(_)
SeqsUpTo(n) ==
  IF n = 0 THEN {<<>>}
  ELSE LET S == SeqsUpTo(n - 1)
       IN  S \cup {Append(s, c) : s \in {t \in S : Len(t) = n - 1}, c \in Chars}

\* Every text of at most MaxTextLen characters; <<>> is the empty string
\* (a missing input_text is falsy in the same way).
Texts == SeqsUpTo(MaxTextLen)

\* String.prototype.split(/\s+/): the pieces between maximal runs of
\* whitespace; a leading or trailing run yields an empty piece.
RECURSIVE SplitFrom(_, _, _, _)
SplitFrom(s, i, cur, acc) ==
  IF i > Len(s) THEN Append(acc, cur)
  ELSE IF IsWs(s[i])
       THEN IF i > 1 /\ IsWs(s[i - 1])
            THEN SplitFrom(s, i + 1, cur, acc)
            ELSE SplitFrom(s, i + 1, <<>>, Append(acc, cur))
       ELSE SplitFrom(s, i + 1, Append(cur, s[i]), acc)

SplitWs(s) == SplitFrom(s, 1, <<>>, <<>>)

\* Array.prototype.slice(0, n)
Slice0(ws, n) == SubSeq(ws, 1, IF n < Len(ws) THEN n ELSE Len(ws))

\* Array.prototype.join(' ')
RECURSIVE JoinSp(_)
JoinSp(ws) ==
  IF ws = <<>> THEN <<>>
  ELSE IF Len(ws) = 1 THEN ws[1]
  ELSE ws[1] \o <<" ">> \o JoinSp(Tail(ws))

(* ---------------------------- plan policy ----------------------------- *)
PlanNames == {"Free", "Basic", "Premium"}

\* config.PRICING_PLANS
PRICING_PLANS ==
  [p \in PlanNames |->
     CASE p = "Free"    -> [price |-> FreePrice,    word_limit |-> FreeWordLimit]
       [] p = "Basic"   -> [price |-> BasicPrice,   word_limit |-> BasicWordLimit]
       [] p = "Premium" -> [price |-> PremiumPrice, word_limit |-> PremiumWordLimit]]


(* ------------------------------- state -------------------------------- *)
VARIABLES
  users,         \* users table: row i has id i (id SERIAL PRIMARY KEY)
  usage_logs,    \* usage_logs table, in insertion order
  transactions,  \* transactions table, in insertion order
  req            \* the requests: position in the handler, inputs, locals, response

vars == <<users, usage_logs, transactions, req>>

Usernames == {"demo", "alice"}

\* Values a client may send as `plan`: absent, empty (null is falsy in the
\* same way), the three plans, and a name that is no plan.
Omitted == "<omitted>"
BodyPlans == {Omitted, "", "Free", "Basic", "Premium", "Gold"}

\* Authorization header: none, a token that does not verify, or a token
\* that verifies and carries a subject id.
NoToken == 0
BadToken == -1

NoUser == [id |-> 0, plan |-> "", paymentStatus |-> ""]

\* apiKeys of an account that holds no external-scorer key (the column
\* default); TRUE stands for a non-empty key.
NoKeys == [gptZero |-> FALSE, originality |-> FALSE]

\* The result of a detection whose scoring is left out.  Scores are in
\* tenths: 1000 stands for 100.
NoScore ==
  [indicatorCount |-> 0, ai_score |-> 0, human_score |-> 1000, formal_language |-> 0,
   repetitive_patterns |-> 0, sentence_uniformity |-> 0]

\* The usage data of the mock answer of GET /usage.
NoUsage == [logs |-> <<>>, humanize |-> 0, detect |-> 0, inputChars |-> 0, outputChars |-> 0]

\* A request record.  pc is the await point the handler is at; "responded"
\* is a request whose response has just been sent, "done" one that is over.
IdleReq ==
  [pc |-> "idle", route |-> "", auth |-> NoToken, username |-> "", plan |-> Omitted,
   phone |-> FALSE, text |-> <<>>, user |-> NoUser,
   wordCount |-> 0, handed |-> <<>>, limitExceeded |-> FALSE,
   invoked |-> FALSE, transformOk |-> FALSE, wuRead |-> 0,
   status |-> 0, wordsUsed |-> 0, dbErr |-> FALSE, usage |-> NoUsage,
   message |-> "",
   keys |-> NoKeys, calls |-> <<>>, source |-> "", score |-> NoScore]

InFlight(q) == req[q].pc \notin {"idle", "done"}

(* ---------------------------- account store --------------------------- *)
\* A create that marks every new account Paid.
CreateRowAllPaid(id, username, plan) ==
  [id |-> id, username |-> username,
   plan |-> IF plan = "" THEN "Free" ELSE plan,
   paymentStatus |-> "Paid",
   wordsUsed |-> 0]

\* User.create: the row inserted for userData (plan falls back to 'Free',
\* payment status is computed from the plan as given).
CreateRow(id, username, plan) ==
  [id |-> id, username |-> username,
   plan |-> IF plan = "" THEN "Free" ELSE plan,
   paymentStatus |-> IF plan = "Free" THEN "Paid" ELSE "Pending",
   wordsUsed |-> 0]

\* User.createDefaultUser, run once at startup after connectDB.
DefaultUser == CreateRow(1, "demo", "Basic")

NullRow == [id |-> 0, username |-> "", plan |-> "", paymentStatus |-> "", wordsUsed |-> 0]

\* User.findById: the row, or null (id 0) when there is none or the query
\* fails (ok = FALSE).
FindById(id, ok) ==
  IF ok /\ id \in 1..Len(users) THEN users[id] ELSE NullRow

\* A lookup that never finds a row.
FindOneNothing(u, ok) == FALSE

\* User.findOne({username}): a row with this username is found.
FindOne(u, ok) == ok /\ \E i \in 1..Len(users) : users[i].username = u

\* The store at startup: empty, or holding the default user.
Init ==
  /\ users \in {<<>>, <<DefaultUser>>}
  /\ usage_logs = <<>>
  /\ transactions = <<>>
  /\ req = [r \in Slots |-> IdleReq]

\* The response is sent.
Resp(rec, code) == [rec EXCEPT !.pc = "responded", !.status = code]

\* Slot r may take the next request: slots are used in order.
CanArrive(r) ==
  /\ req[r].pc = "idle"
  /\ \A q \in Slots : q < r => req[q].pc # "idle"

\* The request is over; its context is dropped.
Close(r) ==
  /\ req[r].pc = "responded"
  /\ req' = [req EXCEPT ![r] = [IdleReq EXCEPT !.pc = "done"]]
  /\ UNCHANGED <<users, usage_logs, transactions>>

(* ------------------------- POST /api/auth/register -------------------- *)
\* A registration request arrives (the route is not protected).  The body
\* of a request is chosen where its handler reads it.
ReceiveRegister(r) ==
  /\ CanArrive(r)
  /\ req' = [req EXCEPT ![r] = [@ EXCEPT !.pc = "r_find", !.route = "register"]]
  /\ UNCHANGED <<users, usage_logs, transactions>>

\* register, up to `await User.findOne`: a failed query reads as "no such
\* user".
RegisterFind(r) ==
  /\ req[r].pc = "r_find"
  /\ \E ok \in BOOLEAN, u \in Usernames :
       req' = [req EXCEPT ![r] =
                 IF FindOne(u, ok)
                 THEN Resp([@ EXCEPT !.username = u], 400)
                 ELSE [@ EXCEPT !.pc = "r_create", !.username = u, !.dbErr = ~ok]]
  /\ UNCHANGED <<users, usage_logs, transactions>>

\* An insert into a table whose username column is not UNIQUE.
RegisterCreateNoUnique(r) ==
  /\ req[r].pc = "r_create"
  /\ \E ok \in BOOLEAN, p \in BodyPlans :
       LET plan == IF p = Omitted THEN "Free" ELSE p
       IN IF ok
          THEN /\ users' = Append(users, CreateRow(Len(users) + 1, req[r].username, plan))
               /\ req' = [req EXCEPT ![r] = Resp([@ EXCEPT !.plan = p], 201)]
          ELSE /\ users' = users
               /\ req' = [req EXCEPT ![r] = Resp([@ EXCEPT !.plan = p, !.dbErr = TRUE], 500)]
  /\ UNCHANGED <<usage_logs, transactions>>

\* register, `await User.create`: the INSERT fails when the store fails or
\* the username is taken (username UNIQUE); the handler then answers 500.
RegisterCreate(r) ==
  /\ req[r].pc = "r_create"
  /\ \E ok \in BOOLEAN, p \in BodyPlans :
       LET plan == IF p = Omitted THEN "Free" ELSE p
       IN IF ok /\ ~FindOne(req[r].username, TRUE)
          THEN /\ users' = Append(users, CreateRow(Len(users) + 1, req[r].username, plan))
               /\ req' = [req EXCEPT ![r] = Resp([@ EXCEPT !.plan = p], 201)]
          ELSE /\ users' = users
               /\ req' = [req EXCEPT ![r] = Resp([@ EXCEPT !.plan = p, !.dbErr = TRUE], 500)]
  /\ UNCHANGED <<usage_logs, transactions>>

(* --------------------------- protected routes ------------------------- *)
ApiRoutes == {"humanize_text", "detect_ai", "payment", "usage"}

\* Protected routes of the auth router: GET /me and PUT /api-keys.
ProfileRoutes == {"me", "api_keys"}

\* Tokens a client can present: none, a bad one, or one for an account.
Tokens == {NoToken, BadToken} \cup (1..Len(users))

\* A request for one of `routes` arrives at the api router, which runs the
\* route's chain: the auth gate, for the two text routes the payment
\* guard, then the handler.
Arrive(r, routes) ==
  /\ CanArrive(r)
  /\ \E rt \in routes, a \in Tokens :
       req' = [req EXCEPT ![r] = [@ EXCEPT !.pc = "protect", !.route = rt, !.auth = a]]
  /\ UNCHANGED <<users, usage_logs, transactions>>

Receive(r) == Arrive(r, ApiRoutes \cup ProfileRoutes)

\* The Auth Gate of the design: 401 without a verifying token or when the
\* account cannot be loaded, else the loaded account becomes req.user and
\* the chain goes on (pc "next").
AuthGate(rec, ok) ==
  LET u == FindById(rec.auth, ok)
  IN IF rec.auth \in {NoToken, BadToken} THEN Resp(rec, 401)
     ELSE IF u.id = 0 THEN Resp([rec EXCEPT !.dbErr = ~ok], 401)
     ELSE [rec EXCEPT !.pc = "next",
                      !.user = [id |-> u.id, plan |-> u.plan,
                                paymentStatus |-> u.paymentStatus]]

\* A guard that looks at the payment status alone.
PaymentOkPaidOnly(user) == user.paymentStatus = "Paid"

\* checkPayment's decision for req.user: TRUE lets the request through.
PaymentOk(user) ==
  IF user.plan = "Free" THEN TRUE
  ELSE IF user.paymentStatus # "Paid" THEN FALSE
  ELSE TRUE

\* middleware checkPayment: 403, or on to the handler.
checkPayment(rec) ==
  IF rec.pc # "next" THEN rec
  ELSE IF PaymentOk(rec.user) THEN rec
  ELSE Resp(rec, 403)

(* -------------------------- POST /humanize_text ----------------------- *)
\* humanizeText, rule-based path: the formal phrases it rewrites, the
\* sentence fillers (sentences over 10 characters) and the exclamation
\* marks (more than 3 '. ' parts) cannot occur in a text over Chars of at
\* most 10 characters, so the result is the text handed in.
HumanizeLocal(t) == t

\* wordCount = input_text.split(/\s+/).length
WordCount(t) == Len(SplitWs(t))

\* processedText: the text handed to humanizeText
ProcessedText(t, wordLimit) ==
  IF WordCount(t) > wordLimit
  THEN JoinSp(Slice0(SplitWs(t), wordLimit))
  ELSE t

LimitExceeded(t, wordLimit) == WordCount(t) > wordLimit

\* The handler up to `await humanizeText(processedText)`: validation, word
\* count, truncation, and the transform, which succeeds (tok) unless its
\* external path (USE_EXTERNAL_API) fails.
HumanizeStart(rec, t, tok) ==
  LET plan == IF rec.user.plan = "" THEN "Free" ELSE rec.user.plan
  IN IF rec.pc # "next" THEN rec
     ELSE IF t = <<>> THEN Resp(rec, 400)
     ELSE IF plan \notin DOMAIN PRICING_PLANS THEN Resp([rec EXCEPT !.text = t], 500)
     ELSE LET L == PRICING_PLANS[plan].word_limit
          IN [rec EXCEPT !.pc = "h_find", !.text = t,
                         !.wordCount = WordCount(t),
                         !.handed = ProcessedText(t, L),
                         !.limitExceeded = LimitExceeded(t, L),
                         !.invoked = TRUE,
                         !.transformOk = tok]

\* The chain of POST /humanize_text from the auth gate's lookup to the
\* handler's first store query (nothing in between awaits the store), for
\* an input_text among `texts`.
HumanizeChain(r, texts) ==
  /\ req[r].pc = "protect"
  /\ req[r].route = "humanize_text"
  /\ \E ok \in BOOLEAN, t \in texts, tok \in BOOLEAN :
       req' = [req EXCEPT ![r] = HumanizeStart(checkPayment(AuthGate(req[r], ok)), t, tok)]
  /\ UNCHANGED <<users, usage_logs, transactions>>

\* Where the requests of all routes interleave, the inputs are the empty
\* text, one word, and two words.
ShortTexts == {<<>>, <<"a">>, <<"a", " ", "a">>}

EnterHumanize(r) == HumanizeChain(r, ShortTexts)

\* `await User.findById(req.user.id)`: null when the query fails, and the
\* update is then skipped.
HumanizeFind(r) ==
  /\ req[r].pc = "h_find"
  /\ \E ok \in BOOLEAN :
       LET u == FindById(req[r].user.id, ok)
       IN req' = [req EXCEPT ![r] =
                    IF u.id # 0
                    THEN [@ EXCEPT !.pc = "h_update", !.wuRead = u.wordsUsed]
                    ELSE [@ EXCEPT !.pc = "h_log", !.dbErr = TRUE]]
  /\ UNCHANGED <<users, usage_logs, transactions>>

\* The value written to words_used: what was read plus this call's count.
NewWordsUsed(wuRead, wordCount) == wuRead + wordCount

\* An update that also puts payment_status back to its column default.
HumanizeUpdateResetsStatus(r) ==
  /\ req[r].pc = "h_update"
  /\ users' = [users EXCEPT ![req[r].user.id] =
                 [@ EXCEPT !.wordsUsed = req[r].wuRead + req[r].wordCount,
                           !.paymentStatus = "Pending"]]
  /\ req' = [req EXCEPT ![r].pc = "h_log"]
  /\ UNCHANGED <<usage_logs, transactions>>

\* `await User.updateById(req.user.id, {wordsUsed: ...})`: a failed UPDATE
\* is swallowed by updateById (it returns null).
HumanizeUpdate(r) ==
  /\ req[r].pc = "h_update"
  /\ \E ok \in BOOLEAN :
       IF ok
       THEN /\ users' = [users EXCEPT ![req[r].user.id].wordsUsed =
                                  NewWordsUsed(req[r].wuRead, req[r].wordCount)]
            /\ req' = [req EXCEPT ![r].pc = "h_log"]
       ELSE /\ users' = users
            /\ req' = [req EXCEPT ![r].pc = "h_log", ![r].dbErr = TRUE]
  /\ UNCHANGED <<usage_logs, transactions>>

\* The row UsageLog.create inserts.
LogRow(userId, action, inputLength, outputLength, successful) ==
  [userId |-> userId, action |-> action, inputLength |-> inputLength,
   outputLength |-> outputLength, successful |-> successful]

\* The humanize response, sent once the accounting block is over: status
\* and body depend on the transform's result only.
HumanizeResponse(rec) ==
  IF rec.transformOk
  THEN Resp([rec EXCEPT !.wordsUsed = rec.wordCount], 200)
  ELSE Resp(rec, 500)

\* `await UsageLog.create(...)` (a failure is caught and logged), then the
\* response.
HumanizeLog(r) ==
  /\ req[r].pc = "h_log"
  /\ \E ok \in BOOLEAN :
       /\ usage_logs' =
            IF ok
            THEN Append(usage_logs,
                        LogRow(req[r].user.id, "humanize_text", Len(req[r].text),
                               IF req[r].transformOk
                               THEN Len(HumanizeLocal(req[r].handed)) ELSE 0,
                               req[r].transformOk))
            ELSE usage_logs
       /\ req' = [req EXCEPT ![r] =
                    HumanizeResponse([@ EXCEPT !.dbErr = @ \/ ~ok])]
  /\ UNCHANGED <<users, transactions>>


(* ---------------------------- POST /detect_ai ------------------------- *)
\* Texts sent to /detect_ai (the scoring of a text is not part of the
\* request pipeline).
DetectTexts == ShortTexts

\* The apiKeys an account can hold: each key present or empty.
KeySets == [gptZero : BOOLEAN, originality : BOOLEAN]

\* The local heuristic ends the detection: a successful local result.
DetectLocal(rec) ==
  [rec EXCEPT !.pc = "d_log", !.source = "local", !.transformOk = TRUE]

\* What follows a GPTZero call that was not made or has failed.
AfterGptZero(rec) ==
  IF rec.keys.originality THEN [rec EXCEPT !.pc = "det_originality"]
  ELSE DetectLocal(rec)

\* The handler up to the detector's first await.
DetectorStart(rec, t, keys) ==
  IF rec.pc # "next" THEN rec
  ELSE IF t = <<>> THEN Resp(rec, 400)
  ELSE LET d == [rec EXCEPT !.text = t, !.handed = t, !.invoked = TRUE, !.keys = keys]
       IN IF keys.gptZero THEN [d EXCEPT !.pc = "det_gptzero"]
          ELSE AfterGptZero(d)

\* The handler with detectAIContent(text, req.user) for an account that
\* holds no key: the detector makes no call and ends in the local result.
DetectStart(rec, t) == DetectorStart(rec, t, NoKeys)

\* A detect chain that records a rejected empty text in the ledger.
EnterDetectLogsRejected(r) ==
  /\ req[r].pc = "protect"
  /\ req[r].route = "detect_ai"
  /\ \E ok \in BOOLEAN, t \in DetectTexts :
       LET rec == DetectStart(checkPayment(AuthGate(req[r], ok)), t)
       IN /\ req' = [req EXCEPT ![r] = rec]
          /\ usage_logs' =
               IF rec.pc = "responded" /\ rec.status = 400
               THEN Append(usage_logs, LogRow(rec.user.id, "detect_ai", 0, 0, FALSE))
               ELSE usage_logs
  /\ UNCHANGED <<users, transactions>>

\* The chain of POST /detect_ai from the auth gate's lookup to the
\* handler's ledger insert.
EnterDetect(r) ==
  /\ req[r].pc = "protect"
  /\ req[r].route = "detect_ai"
  /\ \E ok \in BOOLEAN, t \in DetectTexts :
       req' = [req EXCEPT ![r] = DetectStart(checkPayment(AuthGate(req[r], ok)), t)]
  /\ UNCHANGED <<users, usage_logs, transactions>>

\* The detect response: it depends on the detector's result only.
DetectResponse(rec) == Resp(rec, IF rec.transformOk THEN 200 ELSE 500)

\* `await UsageLog.create(...)` (a failure is caught and logged), then the
\* response.
DetectLog(r) ==
  /\ req[r].pc = "d_log"
  /\ \E ok \in BOOLEAN :
       /\ usage_logs' =
            IF ok
            THEN Append(usage_logs,
                        LogRow(req[r].user.id, "detect_ai", Len(req[r].text), 0,
                               req[r].transformOk))
            ELSE usage_logs
       /\ req' = [req EXCEPT ![r] = DetectResponse([@ EXCEPT !.dbErr = ~ok])]
  /\ UNCHANGED <<users, transactions>>

(* ----------------------------- POST /payment -------------------------- *)
\* Property names every object inherits from Object.prototype
\* (constructor, toString, valueOf, hasOwnProperty, ...); "constructor"
\* stands for them.
InheritedKeys == {"constructor"}

\* `config.PRICING_PLANS[plan]` is truthy: PRICING_PLANS is an object
\* literal, so the lookup also finds what the object inherits.
PlanEntryTruthy(plan) == plan \in DOMAIN PRICING_PLANS \/ plan \in InheritedKeys

\* Validation of the payment request.
PaymentStart(rec, phone, plan) ==
  IF rec.pc # "next" THEN rec
  ELSE IF ~phone \/ plan \in {Omitted, ""} THEN Resp(rec, 400)
  ELSE IF ~PlanEntryTruthy(plan)
  THEN Resp([rec EXCEPT !.plan = plan, !.phone = phone], 400)
  ELSE [rec EXCEPT !.pc = "p_tx", !.plan = plan, !.phone = phone]

\* The chain of POST /payment (auth gate, handler) up to the insert of the
\* transaction.
EnterPayment(r) ==
  /\ req[r].pc = "protect"
  /\ req[r].route = "payment"
  /\ \E ok \in BOOLEAN, phone \in BOOLEAN, plan \in BodyPlans \cup InheritedKeys :
       req' = [req EXCEPT ![r] = PaymentStart(AuthGate(req[r], ok), phone, plan)]
  /\ UNCHANGED <<users, usage_logs, transactions>>

\* A row left at the status Transaction.create falls back to.
TxRowPending(userId, plan) ==
  [userId |-> userId, amount |-> PRICING_PLANS[plan].price,
   status |-> "Pending", plan |-> plan]

\* The row Transaction.create inserts for the payment.
TxRow(userId, plan) ==
  [userId |-> userId, amount |-> PRICING_PLANS[plan].price,
   status |-> "Completed", plan |-> plan]

\* `await Transaction.create(...)`: a failure is thrown, caught by the
\* handler, and the account update is skipped.  For an inherited key the
\* amount is undefined and the INSERT violates amount NOT NULL.
PaymentCreateTx(r) ==
  /\ req[r].pc = "p_tx"
  /\ \E ok \in BOOLEAN :
       IF ok /\ req[r].plan \in DOMAIN PRICING_PLANS
       THEN /\ transactions' = Append(transactions, TxRow(req[r].user.id, req[r].plan))
            /\ req' = [req EXCEPT ![r].pc = "p_update"]
       ELSE /\ transactions' = transactions
            /\ req' = [req EXCEPT ![r] = Resp([@ EXCEPT !.dbErr = TRUE], 200)]
  /\ UNCHANGED <<users, usage_logs>>

\* `await User.updateById(req.user.id, {plan, paymentStatus: 'Paid'})`, then
\* the response.
PaymentUpdate(r) ==
  /\ req[r].pc = "p_update"
  /\ \E ok \in BOOLEAN :
       /\ users' = IF ok
                   THEN [users EXCEPT ![req[r].user.id].plan = req[r].plan,
                                      ![req[r].user.id].paymentStatus = "Paid"]
                   ELSE users
       /\ req' = [req EXCEPT ![r] = Resp([@ EXCEPT !.dbErr = ~ok], 200)]
  /\ UNCHANGED <<usage_logs, transactions>>

(* ------------------------------- GET /usage --------------------------- *)
RECURSIVE SumField(_, _)
SumField(rows, f) ==
  IF rows = <<>> THEN 0 ELSE rows[1][f] + SumField(Tail(rows), f)

\* The ledger rows WHERE user_id = userId, oldest first.
OwnedBy(userId) == SelectSeq(usage_logs, LAMBDA e : e.userId = userId)

Reverse(rows) == [i \in 1..Len(rows) |-> rows[Len(rows) + 1 - i]]

\* A query without ORDER BY ... DESC: the oldest events first.
FindByUserIdOldestFirst(userId, limit) == Slice0(OwnedBy(userId), limit)

\* UsageLog.findByUserId: ORDER BY created_at DESC LIMIT limit
FindByUserId(userId, limit) == Slice0(Reverse(OwnedBy(userId)), limit)

\* UsageLog.countByAction
CountByAction(userId, action) ==
  Len(SelectSeq(OwnedBy(userId), LAMBDA e : e.action = action))

\* UsageLog.getTotalInputChars
GetTotalInputChars(userId) == SumField(OwnedBy(userId), "inputLength")

\* UsageLog.getTotalOutputChars (an output_length of 0 is stored as NULL
\* and adds nothing either way)
GetTotalOutputChars(userId) == SumField(OwnedBy(userId), "outputLength")

\* The chain of GET /usage (auth gate, handler) up to its first ledger
\* read.
UsageStart(rec) ==
  IF rec.pc # "next" THEN rec ELSE [rec EXCEPT !.pc = "u_logs"]

EnterUsage(r) ==
  /\ req[r].pc = "protect"
  /\ req[r].route = "usage"
  /\ \E ok \in BOOLEAN :
       req' = [req EXCEPT ![r] = UsageStart(AuthGate(req[r], ok))]
  /\ UNCHANGED <<users, usage_logs, transactions>>

\* One awaited ledger read of the usage handler at `stage`: its result is
\* kept and the handler goes on to `nxt` (after the last read it
\* answers); when the read fails the handler answers with `failCode` and
\* no usage data.
UsageRead(r, stage, nxt, result, failCode) ==
  /\ req[r].pc = stage
  /\ \E ok \in BOOLEAN :
       req' = [req EXCEPT ![r] =
                 IF ~ok THEN Resp([@ EXCEPT !.usage = NoUsage, !.dbErr = TRUE], failCode)
                 ELSE IF nxt = "responded" THEN Resp([@ EXCEPT !.usage = result], 200)
                 ELSE [@ EXCEPT !.pc = nxt, !.usage = result]]
  /\ UNCHANGED <<users, usage_logs, transactions>>

\* The five reads of router.get('/usage'); a failure is caught and the
\* mock data (zeros, no logs) is answered with success.
UsageFindLogs(r) ==
  UsageRead(r, "u_logs", "u_humanize",
            [req[r].usage EXCEPT !.logs = FindByUserId(req[r].user.id, UsageLogLimit)], 200)

UsageCountHumanize(r) ==
  UsageRead(r, "u_humanize", "u_detect",
            [req[r].usage EXCEPT !.humanize = CountByAction(req[r].user.id, "humanize_text")], 200)

UsageCountDetect(r) ==
  UsageRead(r, "u_detect", "u_in",
            [req[r].usage EXCEPT !.detect = CountByAction(req[r].user.id, "detect_ai")], 200)

UsageInputChars(r) ==
  UsageRead(r, "u_in", "u_out",
            [req[r].usage EXCEPT !.inputChars = GetTotalInputChars(req[r].user.id)], 200)

UsageOutputChars(r) ==
  UsageRead(r, "u_out", "responded",
            [req[r].usage EXCEPT !.outputChars = GetTotalOutputChars(req[r].user.id)], 200)

(* --------------------- POST /api/auth/login, /me, /api-keys ----------- *)
ReceiveLogin(r) ==
  /\ CanArrive(r)
  /\ req' = [req EXCEPT ![r] = [@ EXCEPT !.pc = "l_find", !.route = "login"]]
  /\ UNCHANGED <<users, usage_logs, transactions>>

\* The message of a login response that is not a success.
InvalidCredentials == "Invalid credentials"

\* A login that tells the caller which of the two checks failed.
LoginFindNamesCause(r) ==
  /\ req[r].pc = "l_find"
  /\ \E ok \in BOOLEAN, u \in Usernames, match \in BOOLEAN :
       req' = [req EXCEPT ![r] =
                 IF ~FindOne(u, ok)
                 THEN Resp([@ EXCEPT !.username = u, !.dbErr = ~ok,
                                     !.message = "User not found"], 401)
                 ELSE IF ~match
                 THEN Resp([@ EXCEPT !.username = u, !.message = InvalidCredentials], 401)
                 ELSE Resp([@ EXCEPT !.username = u, !.message = "Login successful"], 200)]
  /\ UNCHANGED <<users, usage_logs, transactions>>

\* login: `await User.findOne` (null also when the query fails), then the
\* password comparison (match; a failing comparison counts as no match).
LoginFind(r) ==
  /\ req[r].pc = "l_find"
  /\ \E ok \in BOOLEAN, u \in Usernames, match \in BOOLEAN :
       req' = [req EXCEPT ![r] =
                 IF ~FindOne(u, ok)
                 THEN Resp([@ EXCEPT !.username = u, !.dbErr = ~ok,
                                     !.message = InvalidCredentials], 401)
                 ELSE IF ~match
                 THEN Resp([@ EXCEPT !.username = u, !.message = InvalidCredentials], 401)
                 ELSE Resp([@ EXCEPT !.username = u, !.message = "Login successful"], 200)]
  /\ UNCHANGED <<users, usage_logs, transactions>>

\* GET /me: `User.findById(req.user._id).select('-password')` throws (a
\* Promise has no method select); the handler's catch answers 500.
MeHandler(rec) == IF rec.pc # "next" THEN rec ELSE Resp(rec, 500)

EnterMe(r) ==
  /\ req[r].pc = "protect"
  /\ req[r].route = "me"
  /\ \E ok \in BOOLEAN :
       req' = [req EXCEPT ![r] = MeHandler(AuthGate(req[r], ok))]
  /\ UNCHANGED <<users, usage_logs, transactions>>

\* PUT /api-keys up to `await User.findById(req.user._id)`.
ApiKeysStart(rec) == IF rec.pc # "next" THEN rec ELSE [rec EXCEPT !.pc = "k_find"]

EnterApiKeys(r) ==
  /\ req[r].pc = "protect"
  /\ req[r].route = "api_keys"
  /\ \E ok \in BOOLEAN :
       req' = [req EXCEPT ![r] = ApiKeysStart(AuthGate(req[r], ok))]
  /\ UNCHANGED <<users, usage_logs, transactions>>

\* req.user._id is undefined on the rows of this User model: the lookup
\* finds no row, `user.apiKeys` throws on null, the catch answers 500.
ApiKeysFind(r) ==
  /\ req[r].pc = "k_find"
  /\ req' = [req EXCEPT ![r] = Resp(@, 500)]
  /\ UNCHANGED <<users, usage_logs, transactions>>

(* ------------------------------ the routers --------------------------- *)
\* A handler that sends its response ends in the same turn of the event
\* loop: no other request takes a step in between.
Quiet == \A q \in Slots : req[q].pc # "responded"

Next ==
  \E r \in Slots :
    \/ Close(r)
    \/ Quiet /\ ReceiveRegister(r)
    \/ Quiet /\ RegisterFind(r)
    \/ Quiet /\ RegisterCreate(r)
    \/ Quiet /\ Receive(r)
    \/ Quiet /\ ReceiveLogin(r)
    \/ Quiet /\ EnterHumanize(r)
    \/ Quiet /\ HumanizeFind(r)
    \/ Quiet /\ HumanizeUpdate(r)
    \/ Quiet /\ HumanizeLog(r)
    \/ Quiet /\ EnterDetect(r)
    \/ Quiet /\ DetectLog(r)
    \/ Quiet /\ EnterPayment(r)
    \/ Quiet /\ PaymentCreateTx(r)
    \/ Quiet /\ PaymentUpdate(r)
    \/ Quiet /\ EnterUsage(r)
    \/ Quiet /\ UsageFindLogs(r)
    \/ Quiet /\ UsageCountHumanize(r)
    \/ Quiet /\ UsageCountDetect(r)
    \/ Quiet /\ UsageInputChars(r)
    \/ Quiet /\ UsageOutputChars(r)
    \/ Quiet /\ LoginFind(r)
    \/ Quiet /\ EnterMe(r)
    \/ Quiet /\ EnterApiKeys(r)
    \/ Quiet /\ ApiKeysFind(r)

Spec == Init /\ [][Next]_vars

\* No request is in flight.
NoneInFlight == \A q \in Slots : ~InFlight(q)

\* The same handlers with one request at a time (a client that waits for
\* each response before its next request).
SeqNext ==
  \E r \in Slots :
    \/ Close(r)
    \/ NoneInFlight /\ ReceiveRegister(r)
    \/ Quiet /\ RegisterFind(r)
    \/ Quiet /\ RegisterCreate(r)
    \/ NoneInFlight /\ Receive(r)
    \/ NoneInFlight /\ ReceiveLogin(r)
    \/ Quiet /\ EnterHumanize(r)
    \/ Quiet /\ HumanizeFind(r)
    \/ Quiet /\ HumanizeUpdate(r)
    \/ Quiet /\ HumanizeLog(r)
    \/ Quiet /\ EnterDetect(r)
    \/ Quiet /\ DetectLog(r)
    \/ Quiet /\ EnterPayment(r)
    \/ Quiet /\ PaymentCreateTx(r)
    \/ Quiet /\ PaymentUpdate(r)
    \/ Quiet /\ EnterUsage(r)
    \/ Quiet /\ UsageFindLogs(r)
    \/ Quiet /\ UsageCountHumanize(r)
    \/ Quiet /\ UsageCountDetect(r)
    \/ Quiet /\ UsageInputChars(r)
    \/ Quiet /\ UsageOutputChars(r)
    \/ Quiet /\ LoginFind(r)
    \/ Quiet /\ EnterMe(r)
    \/ Quiet /\ EnterApiKeys(r)
    \/ Quiet /\ ApiKeysFind(r)

SeqSpec == Init /\ [][SeqNext]_vars

(* ------------------------ the humanize pipeline ----------------------- *)
\* Registrations and humanize requests alone, one request at a time, with
\* every text of at most MaxTextLen characters.
ReceiveHumanize(r) == Arrive(r, {"humanize_text"})

EnterHumanizeText(r) == HumanizeChain(r, Texts)

TextNext ==
  \E r \in Slots :
    \/ Close(r)
    \/ NoneInFlight /\ ReceiveRegister(r)
    \/ Quiet /\ RegisterFind(r)
    \/ Quiet /\ RegisterCreate(r)
    \/ NoneInFlight /\ ReceiveHumanize(r)
    \/ Quiet /\ EnterHumanizeText(r)
    \/ Quiet /\ HumanizeFind(r)
    \/ Quiet /\ HumanizeUpdate(r)
    \/ Quiet /\ HumanizeLog(r)

TextSpec == Init /\ [][TextNext]_vars

(* ------------------- the api router of src/routes/api.js -------------- *)
\* input_text.split(/\\s+/): the pattern is a backslash followed by one or
\* more "s"; a text over Chars holds no backslash, so the split yields the
\* text as its only piece.
SplitBackslashS(t) == <<t>>

\* The handler of src/routes/api.js up to `await humanizeText`.
StrictHumanizeStart(rec, t, tok) ==
  IF rec.pc # "next" THEN rec
  ELSE IF t = <<>> THEN Resp(rec, 400)
  ELSE IF rec.user.plan \notin DOMAIN PRICING_PLANS THEN Resp([rec EXCEPT !.text = t], 500)
  ELSE LET L == PRICING_PLANS[rec.user.plan].word_limit
           wc == Len(SplitBackslashS(t))
       IN [rec EXCEPT !.pc = "sh_find", !.text = t,
                      !.wordCount = wc,
                      !.handed = IF wc > L THEN JoinSp(Slice0(SplitBackslashS(t), L)) ELSE t,
                      !.limitExceeded = wc > L,
                      !.invoked = TRUE,
                      !.transformOk = tok]

StrictReceive(r) == Arrive(r, ApiRoutes)

StrictEnterHumanize(r) ==
  /\ req[r].pc = "protect"
  /\ req[r].route = "humanize_text"
  /\ \E ok \in BOOLEAN, t \in ShortTexts, tok \in BOOLEAN :
       req' = [req EXCEPT ![r] =
                 StrictHumanizeStart(checkPayment(AuthGate(req[r], ok)), t, tok)]
  /\ UNCHANGED <<users, usage_logs, transactions>>

\* `const user = await User.findById(req.user._id)`: a rejection reaches
\* the handler's catch, which answers 500.
StrictHumanizeFind(r) ==
  /\ req[r].pc = "sh_find"
  /\ \E ok \in BOOLEAN :
       LET u == FindById(req[r].user.id, ok)
       IN req' = [req EXCEPT ![r] =
                    IF u.id # 0
                    THEN [@ EXCEPT !.pc = "sh_save", !.wuRead = u.wordsUsed]
                    ELSE Resp([@ EXCEPT !.dbErr = TRUE], 500)]
  /\ UNCHANGED <<users, usage_logs, transactions>>

\* `user.wordsUsed += wordCount; await user.save()`
StrictHumanizeSave(r) ==
  /\ req[r].pc = "sh_save"
  /\ \E ok \in BOOLEAN :
       IF ok
       THEN /\ users' = [users EXCEPT ![req[r].user.id].wordsUsed =
                                  req[r].wuRead + req[r].wordCount]
            /\ req' = [req EXCEPT ![r].pc = "sh_log"]
       ELSE /\ users' = users
            /\ req' = [req EXCEPT ![r] = Resp([@ EXCEPT !.dbErr = TRUE], 500)]
  /\ UNCHANGED <<usage_logs, transactions>>

\* `await UsageLog.create(...)`, then the response; a rejection reaches
\* the handler's catch.
StrictHumanizeLog(r) ==
  /\ req[r].pc = "sh_log"
  /\ \E ok \in BOOLEAN :
       IF ok
       THEN /\ usage_logs' =
                 Append(usage_logs,
                        LogRow(req[r].user.id, "humanize_text", Len(req[r].text),
                               IF req[r].transformOk
                               THEN Len(HumanizeLocal(req[r].handed)) ELSE 0,
                               req[r].transformOk))
            /\ req' = [req EXCEPT ![r] = HumanizeResponse(@)]
       ELSE /\ usage_logs' = usage_logs
            /\ req' = [req EXCEPT ![r] = Resp([@ EXCEPT !.dbErr = TRUE], 500)]
  /\ UNCHANGED <<users, transactions>>

\* /detect_ai of src/routes/api.js: as EnterDetect up to the ledger insert;
\* `await UsageLog.create(...)` is not wrapped, a rejection reaches the
\* handler's catch.
StrictDetectLog(r) ==
  /\ req[r].pc = "d_log"
  /\ \E ok \in BOOLEAN :
       IF ok
       THEN /\ usage_logs' =
                 Append(usage_logs,
                        LogRow(req[r].user.id, "detect_ai", Len(req[r].text), 0,
                               req[r].transformOk))
            /\ req' = [req EXCEPT ![r] = DetectResponse(@)]
       ELSE /\ usage_logs' = usage_logs
            /\ req' = [req EXCEPT ![r] = Resp([@ EXCEPT !.dbErr = TRUE], 500)]
  /\ UNCHANGED <<users, transactions>>

\* POST /payment of src/routes/api.js: the same validation, then the
\* insert, the lookup and the save, none of them wrapped: a rejection
\* reaches the handler's catch, which answers 500.
StrictEnterPayment(r) ==
  /\ req[r].pc = "protect"
  /\ req[r].route = "payment"
  /\ \E ok \in BOOLEAN, phone \in BOOLEAN, plan \in BodyPlans :
       req' = [req EXCEPT ![r] = PaymentStart(AuthGate(req[r], ok), phone, plan)]
  /\ UNCHANGED <<users, usage_logs, transactions>>

\* `await Transaction.create(...)`
StrictPaymentCreateTx(r) ==
  /\ req[r].pc = "p_tx"
  /\ \E ok \in BOOLEAN :
       IF ok
       THEN /\ transactions' = Append(transactions, TxRow(req[r].user.id, req[r].plan))
            /\ req' = [req EXCEPT ![r].pc = "sp_find"]
       ELSE /\ transactions' = transactions
            /\ req' = [req EXCEPT ![r] = Resp([@ EXCEPT !.dbErr = TRUE], 500)]
  /\ UNCHANGED <<users, usage_logs>>

\* `const user = await User.findById(req.user._id)`
StrictPaymentFind(r) ==
  /\ req[r].pc = "sp_find"
  /\ \E ok \in BOOLEAN :
       req' = [req EXCEPT ![r] =
                 IF FindById(req[r].user.id, ok).id # 0
                 THEN [@ EXCEPT !.pc = "sp_save"]
                 ELSE Resp([@ EXCEPT !.dbErr = TRUE], 500)]
  /\ UNCHANGED <<users, usage_logs, transactions>>

\* `user.plan = plan; user.paymentStatus = 'Paid'; await user.save()`, then
\* the response.
StrictPaymentSave(r) ==
  /\ req[r].pc = "sp_save"
  /\ \E ok \in BOOLEAN :
       IF ok
       THEN /\ users' = [users EXCEPT ![req[r].user.id].plan = req[r].plan,
                                      ![req[r].user.id].paymentStatus = "Paid"]
            /\ req' = [req EXCEPT ![r] = Resp(@, 200)]
       ELSE /\ users' = users
            /\ req' = [req EXCEPT ![r] = Resp([@ EXCEPT !.dbErr = TRUE], 500)]
  /\ UNCHANGED <<usage_logs, transactions>>

\* GET /usage of src/routes/api.js: the five ledger reads (find, two
\* countDocuments, two aggregate) are awaited in the handler's try block;
\* a rejection is answered 500.
StrictUsageFindLogs(r) ==
  UsageRead(r, "u_logs", "u_humanize",
            [req[r].usage EXCEPT !.logs = FindByUserId(req[r].user.id, UsageLogLimit)], 500)

StrictUsageCountHumanize(r) ==
  UsageRead(r, "u_humanize", "u_detect",
            [req[r].usage EXCEPT !.humanize = CountByAction(req[r].user.id, "humanize_text")], 500)

StrictUsageCountDetect(r) ==
  UsageRead(r, "u_detect", "u_in",
            [req[r].usage EXCEPT !.detect = CountByAction(req[r].user.id, "detect_ai")], 500)

StrictUsageInputChars(r) ==
  UsageRead(r, "u_in", "u_out",
            [req[r].usage EXCEPT !.inputChars = GetTotalInputChars(req[r].user.id)], 500)

StrictUsageOutputChars(r) ==
  UsageRead(r, "u_out", "responded",
            [req[r].usage EXCEPT !.outputChars = GetTotalOutputChars(req[r].user.id)], 500)

StrictNext ==
  \E r \in Slots :
    \/ Close(r)
    \/ Quiet /\ ReceiveRegister(r)
    \/ Quiet /\ RegisterFind(r)
    \/ Quiet /\ RegisterCreate(r)
    \/ Quiet /\ StrictReceive(r)
    \/ Quiet /\ StrictEnterHumanize(r)
    \/ Quiet /\ StrictHumanizeFind(r)
    \/ Quiet /\ StrictHumanizeSave(r)
    \/ Quiet /\ StrictHumanizeLog(r)
    \/ Quiet /\ EnterDetect(r)
    \/ Quiet /\ StrictDetectLog(r)
    \/ Quiet /\ StrictEnterPayment(r)
    \/ Quiet /\ StrictPaymentCreateTx(r)
    \/ Quiet /\ StrictPaymentFind(r)
    \/ Quiet /\ StrictPaymentSave(r)
    \/ Quiet /\ EnterUsage(r)
    \/ Quiet /\ StrictUsageFindLogs(r)
    \/ Quiet /\ StrictUsageCountHumanize(r)
    \/ Quiet /\ StrictUsageCountDetect(r)
    \/ Quiet /\ StrictUsageInputChars(r)
    \/ Quiet /\ StrictUsageOutputChars(r)

StrictSpec == Init /\ [][StrictNext]_vars

(* ----------------------- the assembled application -------------------- *)
\* index.js: POST /humanize_text is registered on the app before the
\* routers are mounted, so the app's own handler answers it; the other api
\* routes reach the api router and its middleware `protect`.
AppReceive(r) ==
  /\ CanArrive(r)
  /\ \E rt \in ApiRoutes \cup ProfileRoutes, a \in Tokens :
       req' = [req EXCEPT ![r] =
                 [@ EXCEPT !.pc = IF rt = "humanize_text" THEN "index_humanize"
                                  ELSE "protect",
                           !.route = rt, !.auth = a]]
  /\ UNCHANGED <<users, usage_logs, transactions>>

\* The replacements of index.js's handler (utilize, commence, subsequently,
\* therefore, furthermore) match nothing in a text over Chars.
IndexReplace(t) == t

\* app.post('/humanize_text') of index.js: no middleware, no store access.
IndexHumanize(r) ==
  /\ req[r].pc = "index_humanize"
  /\ \E t \in ShortTexts :
       req' = [req EXCEPT ![r] =
                 IF t = <<>> THEN Resp(@, 400)
                 ELSE Resp([@ EXCEPT !.text = t, !.handed = t, !.invoked = TRUE,
                                     !.transformOk = TRUE], 200)]
  /\ UNCHANGED <<users, usage_logs, transactions>>

\* `User.findById(decoded.id).select('-password')` in protect: findById is
\* an async function, its call yields a Promise, and a Promise has no
\* method `select`; the expression throws a TypeError for every id.
FindByIdSelectThrows(id) == TRUE

\* middleware protect, as coded: no token 401; jwt.verify throws 401; the
\* lookup expression throws inside the same try block, 401.
protect(r) ==
  /\ req[r].pc = "protect"
  /\ LET u == FindById(req[r].auth, TRUE)
     IN req' = [req EXCEPT ![r] =
                    IF req[r].auth = NoToken THEN Resp(@, 401)
                    ELSE IF req[r].auth = BadToken THEN Resp(@, 401)
                    ELSE IF FindByIdSelectThrows(req[r].auth) THEN Resp(@, 401)
                    ELSE IF u.id = 0 THEN Resp(@, 401)
                    ELSE [@ EXCEPT !.pc = "next",
                                   !.user = [id |-> u.id, plan |-> u.plan,
                                             paymentStatus |-> u.paymentStatus]]]
  /\ UNCHANGED <<users, usage_logs, transactions>>

AppNext ==
  \E r \in Slots :
    \/ Close(r)
    \/ Quiet /\ ReceiveRegister(r)
    \/ Quiet /\ RegisterFind(r)
    \/ Quiet /\ RegisterCreate(r)
    \/ Quiet /\ AppReceive(r)
    \/ Quiet /\ IndexHumanize(r)
    \/ Quiet /\ protect(r)

AppSpec == Init /\ [][AppNext]_vars

(* ------------------------ the usage statistics ------------------------ *)
\* GET /usage alone, one request at a time, over every ledger of at most
\* MaxLedger events that the text handlers can have written for two
\* accounts: the default user after a payment for Basic, and a registered
\* Free account.  Rows are in insertion order, which is the order of
\* their created_at (DEFAULT NOW()).
UsageUsers ==
  <<[DefaultUser EXCEPT !.paymentStatus = "Paid"], CreateRow(2, "alice", "Free")>>

\* The events HumanizeLog and DetectLog write for the account in row u.
LedgerRows(u) ==
  LET L == PRICING_PLANS[u.plan].word_limit
      texts == ShortTexts \ {<<>>}
  IN {LogRow(u.id, "humanize_text", Len(t),
             IF tok THEN Len(HumanizeLocal(ProcessedText(t, L))) ELSE 0, tok) :
        t \in texts, tok \in BOOLEAN}
     \cup {LogRow(u.id, "detect_ai", Len(t), 0, TRUE) : t \in texts}

UsageInit ==
  /\ users = UsageUsers
  /\ usage_logs \in UNION {[1..n -> UNION {LedgerRows(users[i]) : i \in 1..Len(users)}] :
                             n \in 0..MaxLedger}
  /\ transactions = <<TxRow(1, "Basic")>>
  /\ req = [r \in Slots |-> IdleReq]

ReceiveUsage(r) == Arrive(r, {"usage"})

UsageNext ==
  \E r \in Slots :
    \/ Close(r)
    \/ NoneInFlight /\ ReceiveUsage(r)
    \/ Quiet /\ EnterUsage(r)
    \/ Quiet /\ UsageFindLogs(r)
    \/ Quiet /\ UsageCountHumanize(r)
    \/ Quiet /\ UsageCountDetect(r)
    \/ Quiet /\ UsageInputChars(r)
    \/ Quiet /\ UsageOutputChars(r)

UsageSpec == UsageInit /\ [][UsageNext]_vars

(* ----------------------------- the detector --------------------------- *)
\* detectAIContent(text, req.user) for accounts that may hold external
\* scorer keys (users.api_keys; the rows of the model do not carry the
\* column, the keys are chosen where the account is loaded).  Each axios
\* call is an await point; its answer is the scorer's step.
EnterDetector(r) ==
  /\ req[r].pc = "protect"
  /\ req[r].route = "detect_ai"
  /\ \E ok \in BOOLEAN, t \in DetectTexts, keys \in KeySets :
       req' = [req EXCEPT ![r] =
                 DetectorStart(checkPayment(AuthGate(req[r], ok)), t, keys)]
  /\ UNCHANGED <<users, usage_logs, transactions>>

\* A GPTZero call whose failure ends the detection as failed.
GptZeroAnswersUncaught(r) ==
  /\ req[r].pc = "det_gptzero"
  /\ \E ok \in BOOLEAN :
       LET d == [req[r] EXCEPT !.calls = Append(@, [api |-> "gptzero", ok |-> ok])]
       IN req' = [req EXCEPT ![r] =
                    IF ok THEN [d EXCEPT !.pc = "d_log", !.source = "gptzero",
                                         !.transformOk = TRUE]
                    ELSE [d EXCEPT !.pc = "d_log", !.transformOk = FALSE]]
  /\ UNCHANGED <<users, usage_logs, transactions>>

\* The GPTZero call returns: with a usable answer the detection ends with
\* source gptzero; an error (also one thrown while the answer is read) is
\* caught and the detection goes on.
GptZeroAnswers(r) ==
  /\ req[r].pc = "det_gptzero"
  /\ \E ok \in BOOLEAN :
       LET d == [req[r] EXCEPT !.calls = Append(@, [api |-> "gptzero", ok |-> ok])]
       IN req' = [req EXCEPT ![r] =
                    IF ok THEN [d EXCEPT !.pc = "d_log", !.source = "gptzero",
                                         !.transformOk = TRUE]
                    ELSE AfterGptZero(d)]
  /\ UNCHANGED <<users, usage_logs, transactions>>

\* The Originality call returns.
OriginalityAnswers(r) ==
  /\ req[r].pc = "det_originality"
  /\ \E ok \in BOOLEAN :
       LET d == [req[r] EXCEPT !.calls = Append(@, [api |-> "originality", ok |-> ok])]
       IN req' = [req EXCEPT ![r] =
                    IF ok THEN [d EXCEPT !.pc = "d_log", !.source = "originality",
                                         !.transformOk = TRUE]
                    ELSE DetectLocal(d)]
  /\ UNCHANGED <<users, usage_logs, transactions>>

\* Detect requests alone, one at a time, of two accounts that pass the
\* payment guard.
DetectInit ==
  /\ users = UsageUsers
  /\ usage_logs = <<>>
  /\ transactions = <<TxRow(1, "Basic")>>
  /\ req = [r \in Slots |-> IdleReq]

ReceiveDetect(r) == Arrive(r, {"detect_ai"})

\* The steps the server takes by itself.
ServerStep ==
  \E r \in Slots :
    \/ Close(r)
    \/ Quiet /\ EnterDetector(r)
    \/ Quiet /\ DetectLog(r)

\* The steps that take an answer of an external scorer.
ScorerStep ==
  \E r \in Slots :
    \/ Quiet /\ GptZeroAnswers(r)
    \/ Quiet /\ OriginalityAnswers(r)

DetectNext ==
  \/ \E r \in Slots : NoneInFlight /\ ReceiveDetect(r)
  \/ ServerStep
  \/ ScorerStep

DetectSpec == DetectInit /\ [][DetectNext]_vars

\* The server keeps taking its own steps; nothing makes a scorer answer.
DetectLive == DetectSpec /\ WF_vars(ServerStep)

(* -------------------------- the local heuristic ----------------------- *)
\* detectAIContent's local detection (src/services/detector.js:72-126) as
\* a function of the text and of the random multiplier.  Texts are built
\* from a few pieces; of the eleven indicator phrases only "thus," can be
\* spelled with their characters.  Scores are carried in tenths of a
\* point, the multiplier in ten-thousandths.
LongWord == <<"x", "x", "x", "x", "x", "x", "x", "x", "x">>

Pieces ==
  { <<".", " ">>, <<" ">>, <<"x">>, <<"t", "h", "u", "s", ",">>,
    <<"T", "h", "u", "s", ",">>, LongWord }

RECURSIVE Concat(_)
Concat(ps) == IF ps = <<>> THEN <<>> ELSE Head(ps) \o Concat(Tail(ps))

\* The texts scored: up to MaxPieces pieces in a row, not empty.
ScoreTexts == {Concat(ps) : ps \in UNION {[1..n -> Pieces] : n \in 1..MaxPieces}}

aiIndicators == { <<"t", "h", "u", "s", ",">> }

\* text.toLowerCase()
ToLower(t) == [i \in 1..Len(t) |-> IF t[i] = "T" THEN "t" ELSE t[i]]

\* \w of the regular expressions
IsWordChar(c) == c \in {"t", "h", "u", "s", "x", "T"}

\* \b before position i of t (i = Len(t) + 1: at the end): exactly one
\* of the characters on the two sides is a word character.
Boundary(t, i) ==
  (i > 1 /\ IsWordChar(t[i - 1])) # (i <= Len(t) /\ IsWordChar(t[i]))

\* new RegExp('\\b' + indicator + '\\b', 'g') matches t at position i.
MatchAt(t, ind, i) ==
  /\ i + Len(ind) - 1 <= Len(t)
  /\ SubSeq(t, i, i + Len(ind) - 1) = ind
  /\ Boundary(t, i)
  /\ Boundary(t, i + Len(ind))

RECURSIVE SumOfSet(_, _)
\* The sum of the function f over the finite set S.
SumOfSet(S, f) ==
  IF S = {} THEN 0
  ELSE LET x == CHOOSE x \in S : TRUE IN f[x] + SumOfSet(S \ {x}, f)

\* indicatorCount: the matches of every indicator in the lowered text.
IndicatorCount(t) ==
  LET matches == [ind \in aiIndicators |->
                    Cardinality({i \in 1..Len(t) : MatchAt(ToLower(t), ind, i)})]
  IN SumOfSet(aiIndicators, matches)

IsEnd(c) == c \in {".", "!", "?"}

RECURSIVE SentencesFrom(_, _, _, _)
\* text.split(/(?<=[.!?])\s+/) from position i on: cur is the sentence
\* being read, acc the sentences read.
SentencesFrom(t, i, cur, acc) ==
  IF i > Len(t) THEN Append(acc, cur)
  ELSE IF IsWs(t[i]) /\ i > 1 /\ IsEnd(t[i - 1])
  THEN LET after == {j \in i..Len(t) : ~IsWs(t[j])}
           nxt == IF after = {} THEN Len(t) + 1
                  ELSE CHOOSE j \in after : \A k \in after : j <= k
       IN SentencesFrom(t, nxt, <<>>, Append(acc, cur))
  ELSE SentencesFrom(t, i + 1, Append(cur, t[i]), acc)

\* The sentences kept: .filter(s => s.trim() !== '')
Sentences(t) ==
  SelectSeq(SentencesFrom(t, 1, <<>>, <<>>),
            LAMBDA s : \E i \in 1..Len(s) : ~IsWs(s[i]))

\* sentence.trim().split(/\s+/)[0].toLowerCase()
FirstWord(s) ==
  LET from == CHOOSE i \in 1..Len(s) : ~IsWs(s[i]) /\ \A j \in 1..(i - 1) : IsWs(s[j])
      stops == {i \in from..Len(s) : IsWs(s[i])}
      to == IF stops = {} THEN Len(s)
            ELSE (CHOOSE i \in stops : \A j \in stops : i <= j) - 1
  IN ToLower(SubSeq(s, from, to))

\* repeatedStarts = sentenceStarts.length - uniqueStarts.size
RepeatedStarts(t) ==
  LET ss == Sentences(t)
  IN Len(ss) - Cardinality({FirstWord(ss[i]) : i \in 1..Len(ss)})

\* Math.floor(Math.sqrt(x)) for x >= 0
Isqrt(x) == CHOOSE k \in 0..(2 * LuScale) : k * k <= x /\ (k + 1) * (k + 1) > x

\* lengthUniformity = stdDev / meanLength in thousandths (cut off): with n
\* lengths of sum S and square sum Q it is sqrt(n*Q - S*S) / S.
LengthUniformity(t) ==
  LET ss == Sentences(t)
      n == Len(ss)
      S == SumOfSet(1..n, [i \in 1..n |-> Len(ss[i])])
      Q == SumOfSet(1..n, [i \in 1..n |-> Len(ss[i]) * Len(ss[i])])
  IN IF n = 0 THEN 0
     ELSE Isqrt(((n * Q - S * S) * LuScale * LuScale) \div (S * S))

\* The thousandths of LengthUniformity(t) are the whole value: nothing is
\* cut off, and the scores computed from it are exact.
LuExact(t) ==
  LET ss == Sentences(t)
      n == Len(ss)
      S == SumOfSet(1..n, [i \in 1..n |-> Len(ss[i])])
      Q == SumOfSet(1..n, [i \in 1..n |-> Len(ss[i]) * Len(ss[i])])
      x == (n * Q - S * S) * LuScale * LuScale
  IN n = 0 \/ (x % (S * S) = 0 /\ Isqrt(x \div (S * S)) * Isqrt(x \div (S * S)) = x \div (S * S))

Min(a, b) == IF a < b THEN a ELSE b
Max(a, b) == IF a > b THEN a ELSE b

\* Math.round(p / q) for p >= 0, q > 0: halves go up.
RoundDiv(p, q) == (2 * p + q) \div (2 * q)

\* baseScore, in tenths
BaseScore(t) ==
  Min(1000, IndicatorCount(t) * 100 + RepeatedStarts(t) * 50
            + (1000 - LengthUniformity(t)))

\* aiScore * 10, as the fraction num / MultiplierScale, for the multiplier
\* m / MultiplierScale
AiScoreNum(t, m) == Min(1000 * MultiplierScale, Max(0, BaseScore(t) * m))

\* The result of the local detection.
LocalResult(t, m) ==
  [indicatorCount |-> IndicatorCount(t),
   ai_score |-> RoundDiv(AiScoreNum(t, m), MultiplierScale),
   human_score |-> RoundDiv(1000 * MultiplierScale - AiScoreNum(t, m), MultiplierScale),
   formal_language |-> Min(1000, IndicatorCount(t) * 150),
   repetitive_patterns |-> Min(1000, RepeatedStarts(t) * 200),
   sentence_uniformity |-> Min(1000, 1000 - LengthUniformity(t))]

\* Values of 0.85 + Math.random() * 0.3, in ten-thousandths.
Multipliers == {MinMultiplier, 8505, 9000, 10000, 11000, MaxMultiplier}

\* The detect chain for an account without keys, with the local result.
EnterScore(r) ==
  /\ req[r].pc = "protect"
  /\ req[r].route = "detect_ai"
  /\ \E ok \in BOOLEAN, t \in ScoreTexts, m \in Multipliers :
       LET rec == DetectStart(checkPayment(AuthGate(req[r], ok)), t)
       IN req' = [req EXCEPT ![r] =
                    IF rec.invoked THEN [rec EXCEPT !.score = LocalResult(t, m)]
                    ELSE rec]
  /\ UNCHANGED <<users, usage_logs, transactions>>

\* No request has arrived yet.
NoneYet == \A q \in Slots : req[q].pc = "idle"

\* One detect request: its scores depend on nothing but the text and the
\* multiplier.
ScoreNext ==
  \E r \in Slots :
    \/ Close(r)
    \/ NoneYet /\ ReceiveDetect(r)
    \/ Quiet /\ EnterScore(r)
    \/ Quiet /\ DetectLog(r)

ScoreSpec == DetectInit /\ [][ScoreNext]_vars

(* ------------------------------- properties --------------------------- *)
\* The words of a text: its maximal runs of non-whitespace characters.
Words(t) == SelectSeq(SplitWs(t), LAMBDA w : w # <<>>)

\* The word limit of the plan of the account attached to a request.
LimitOf(rec) == PRICING_PLANS[rec.user.plan].word_limit

\* A humanize request that has reached the transform, its input holding
\* at least one word.
Humanizing(r) ==
  /\ req[r].route = "humanize_text"
  /\ req[r].invoked
  /\ Words(req[r].text) # <<>>

\* The gates let the request through: it carries the token of an account
\* and the account attached to it is on plan Free or has paid.
PassedGates(rec) ==
  /\ rec.auth \in 1..Len(users)
  /\ rec.user.id = rec.auth
  /\ (rec.user.plan = "Free" \/ rec.user.paymentStatus = "Paid")

\* C1: in the assembled application the transform of /humanize_text and
\* /detect_ai runs only for a request with the token of an existing
\* account that passes the payment guard, and a request with no token or
\* a bad one is answered 401 with no processing of its text.
C1_TransformOnlyBehindGates ==
  \A r \in Slots :
    /\ req[r].invoked => PassedGates(req[r])
    /\ (/\ req[r].pc = "responded"
        /\ req[r].route \in {"humanize_text", "detect_ai"}
        /\ req[r].auth \in {NoToken, BadToken})
       => (req[r].status = 401 /\ ~req[r].invoked)

\* C2: when the input of a humanize request has more words than the plan
\* allows, the text handed to the transform is the first L words of the
\* input and limitExceeded is true.
C2_TruncatesToFirstWords ==
  \A r \in Slots :
    (Humanizing(r) /\ Len(Words(req[r].text)) > LimitOf(req[r]))
    => /\ Words(req[r].handed) = Slice0(Words(req[r].text), LimitOf(req[r]))
       /\ req[r].limitExceeded

\* C3: when the input of a humanize request has at most as many words as
\* the plan allows (words being the non-empty pieces between whitespace),
\* the text handed to the transform is the input and limitExceeded is
\* false.
C3_WithinLimitUnchanged ==
  \A r \in Slots :
    (Humanizing(r) /\ Len(Words(req[r].text)) <= LimitOf(req[r]))
    => /\ req[r].handed = req[r].text
       /\ ~req[r].limitExceeded

\* C4: a humanize or detect request that reached the transform is answered
\* by the transform's outcome alone (200 with this call's word count, or
\* 500 when the transform failed), whether or not the ledger insert and
\* the wordsUsed update succeeded.
C4_LedgerFailureKeepsResponse ==
  \A r \in Slots :
    (/\ req[r].pc = "responded"
     /\ req[r].route \in {"humanize_text", "detect_ai"}
     /\ req[r].invoked)
    => /\ req[r].status = IF req[r].transformOk THEN 200 ELSE 500
       /\ (req[r].route = "humanize_text" /\ req[r].transformOk)
          => req[r].wordsUsed = req[r].wordCount

C6_ProtectPassesValidToken ==
  \A r \in Slots :
    (/\ req[r].route \in {"detect_ai", "payment"}
     /\ req[r].pc \notin {"idle", "protect"})
    => /\ (req[r].pc = "responded" /\ req[r].status = 401)
          <=> req[r].auth \notin 1..Len(users)
       /\ req[r].auth \in 1..Len(users) => req[r].user.id = req[r].auth

\* C7: every account on plan Free has paymentStatus Paid.
C7_FreeIsPaid ==
  \A i \in 1..Len(users) :
    users[i].plan = "Free" => users[i].paymentStatus = "Paid"

\* C8: no step lowers the wordsUsed of an account.
C8_WordsUsedNeverDecreases ==
  [][\A i \in 1..Len(users) : users'[i].wordsUsed >= users[i].wordsUsed]_vars

\* C9: with one request at a time, a humanize request whose transform
\* succeeded and whose update went through adds the number of words of
\* its input to the account's wordsUsed, and its response reports that
\* number as plan.wordsUsed.
C9_AddsOriginalWordCount ==
  [][\A r \in Slots :
       /\ (/\ req[r].pc = "h_update" /\ req'[r].pc = "h_log"
           /\ Words(req[r].text) # <<>>
           /\ req[r].transformOk /\ ~req'[r].dbErr)
          => users'[req[r].user.id].wordsUsed =
               users[req[r].user.id].wordsUsed + Len(Words(req[r].text))
       /\ (/\ req[r].pc = "h_log" /\ req'[r].pc = "responded"
           /\ Words(req[r].text) # <<>>
           /\ req'[r].status = 200)
          => req'[r].wordsUsed = Len(Words(req[r].text))]_vars

\* C10: a step changes the wordsUsed of an account only if it is the
\* update of a humanize request of that account whose transform
\* succeeded.
C10_OnlySuccessfulHumanizeWrites ==
  [][\A i \in 1..Len(users) :
       users'[i].wordsUsed # users[i].wordsUsed
       => \E r \in Slots :
            /\ req[r].route = "humanize_text"
            /\ req[r].pc = "h_update" /\ req'[r].pc = "h_log"
            /\ req[r].user.id = i
            /\ req[r].transformOk]_vars

C12_OneEventPerAttempt ==
  [][/\ \A r \in Slots :
          (/\ req[r].pc # "responded" /\ req'[r].pc = "responded"
           /\ req'[r].route \in {"humanize_text", "detect_ai"}
           /\ req'[r].invoked
           /\ ~req'[r].dbErr)
          => /\ Len(usage_logs') = Len(usage_logs) + 1
             /\ LET e == usage_logs'[Len(usage_logs')]
                IN /\ e.userId = req'[r].user.id
                   /\ e.action = req'[r].route
                   /\ e.successful = req'[r].transformOk
     /\ Len(usage_logs') >= Len(usage_logs)
     /\ SubSeq(usage_logs', 1, Len(usage_logs)) = usage_logs]_vars

C14_EmptyInputRejected ==
  \A r \in Slots :
    /\ (req[r].route = "humanize_text" /\ Words(req[r].text) = <<>>)
       => /\ ~req[r].invoked
          /\ req[r].pc = "responded" => req[r].status \in {400, 401, 403}
    /\ (req[r].route = "detect_ai" /\ req[r].text = <<>>)
       => /\ ~req[r].invoked
          /\ req[r].pc = "responded" => req[r].status \in {400, 401, 403}

\* C15: an authenticated payment request that carries a phone number and
\* a plan name other than Free, Basic and Premium is answered 400 by the
\* handler's validation, and no step of such a request adds a transaction
\* or changes an account.
C15_UnknownPlanRejected ==
  [][\A r \in Slots :
       (/\ req'[r].route = "payment"
        /\ req'[r].phone
        /\ req'[r].plan \notin PlanNames \cup {Omitted, ""}
        /\ req'[r].user.id # 0
        /\ req[r] # req'[r])
       => /\ req[r].pc = "protect"
             => (req'[r].pc = "responded" /\ req'[r].status = 400)
          /\ transactions' = transactions
          /\ users' = users]_vars

\* C16: an authenticated payment request with a phone number and one of
\* the plans Free, Basic, Premium is answered with success (200), whether
\* or not the insert of the transaction and the update of the account
\* went through.
C16_PaymentAlwaysSucceeds ==
  \A r \in Slots :
    (/\ req[r].route = "payment"
     /\ req[r].pc = "responded"
     /\ req[r].user.id # 0
     /\ req[r].phone
     /\ req[r].plan \in PlanNames)
    => req[r].status = 200

OwnEvents(a) == {k \in 1..Len(usage_logs) : usage_logs[k].userId = a}

RECURSIVE SumAt(_, _)
\* The sum of field f over the ledger positions in S.
SumAt(S, f) ==
  IF S = {} THEN 0
  ELSE LET k == CHOOSE k \in S : TRUE
       IN usage_logs[k][f] + SumAt(S \ {k}, f)

C19_UsageReadFailureAnswersZeros ==
  \A r \in Slots :
    (/\ req[r].route = "usage" /\ req[r].pc = "responded"
     /\ req[r].user.id # 0
     /\ req[r].dbErr)
    => /\ req[r].status = 200
       /\ req[r].usage.logs = <<>>
       /\ req[r].usage.humanize = 0 /\ req[r].usage.detect = 0
       /\ req[r].usage.inputChars = 0 /\ req[r].usage.outputChars = 0

\* Some account has the username u.
Taken(u) == \E i \in 1..Len(users) : users[i].username = u

\* C20 as stated: a registration request for a username that an account
\* already has is answered 400 by its lookup step, and the step changes
\* no account.
C20_DuplicateUsernameRejected ==
  [][\A r \in Slots :
       (/\ req[r].route = "register"
        /\ req[r].pc = "r_find" /\ req'[r].pc # "r_find"
        /\ Taken(req'[r].username))
       => /\ req'[r].pc = "responded" /\ req'[r].status = 400
          /\ users' = users]_vars

\* C20, amended: a registration request for a username that an account
\* already has is answered 400 when its lookup of the username goes
\* through, and 500 by the insert when the lookup failed; in both cases
\* no step of the request adds an account or changes one.
C20_DuplicateUsernameNeverCreated ==
  [][\A r \in Slots :
       (/\ req[r].route = "register"
        /\ req[r] # req'[r]
        /\ Taken(req'[r].username))
       => /\ users' = users
          /\ (req[r].pc = "r_find" /\ ~req'[r].dbErr)
             => (req'[r].pc = "responded" /\ req'[r].status = 400)
          /\ (req[r].pc = "r_find" /\ req'[r].dbErr)
             => req'[r].pc = "r_create"
          /\ req[r].pc = "r_create"
             => (req'[r].pc = "responded" /\ req'[r].status = 500)]_vars

\* A second registration of "demo" has just been answered 400 after the
\* account of that name had paid for a plan.
C20_Witness ==
  \E r \in Slots :
    /\ req[r].route = "register" /\ req[r].pc = "responded"
    /\ req[r].status = 400 /\ req[r].username = "demo"
    /\ users # <<>>
    /\ users[1].username = "demo" /\ users[1].paymentStatus = "Paid"

\* C21: a login that fails is answered 401 with the message "Invalid
\* credentials", the same whether no account has the username (or the
\* lookup found none) or the password did not match, and the step changes
\* nothing in the store.
C21_LoginFailuresAlike ==
  [][\A r \in Slots :
       (/\ req[r].pc = "l_find" /\ req'[r].pc = "responded"
        /\ req'[r].status # 200)
       => /\ req'[r].status = 401
          /\ req'[r].message = "Invalid credentials"
          /\ <<users, usage_logs, transactions>>' = <<users, usage_logs, transactions>>]_vars

\* A login with the name of an existing account, whose lookup went
\* through, has just been refused: the password was wrong.
C21_Witness ==
  \E r \in Slots :
    /\ req[r].route = "login" /\ req[r].pc = "responded"
    /\ req[r].status = 401 /\ ~req[r].dbErr
    /\ Taken(req[r].username)
    /\ \E u \in Usernames : ~Taken(u)

C23_DetectEventuallyAnswered ==
  \A r \in Slots :
    (req[r].pc \in {"det_gptzero", "det_originality"}) ~> (req[r].pc = "responded")

\* The number of occurrences of the indicator phrases in the text,
\* compared case-insensitively, whatever follows the comma.
Occurrences(t) ==
  Cardinality({<<ind, i>> \in aiIndicators \X (1..Len(t)) :
                 /\ i + Len(ind) - 1 <= Len(t)
                 /\ SubSeq(ToLower(t), i, i + Len(ind) - 1) = ind})

\* C24: the reported ai_score of a local detection lies in [0, 100] and
\* the reported human_score is 100 minus the reported ai_score, for every
\* multiplier and every text (of those whose scores are carried exactly;
\* scores in tenths).
C24_ScoresSumTo100 ==
  \A r \in Slots :
    (/\ req[r].route = "detect_ai" /\ req[r].invoked /\ req[r].source = "local"
     /\ LuExact(req[r].text))
    => /\ req[r].score.ai_score \in 0..1000
       /\ req[r].score.human_score = 1000 - req[r].score.ai_score

\* C25: each of the three sub-scores of a local detection lies in
\* [0, 100] (in tenths: 0..1000), for every text.
C25_SubScoresInRange ==
  \A r \in Slots :
    (req[r].route = "detect_ai" /\ req[r].invoked /\ req[r].source = "local")
    => /\ req[r].score.formal_language \in 0..1000
       /\ req[r].score.repetitive_patterns \in 0..1000
       /\ req[r].score.sentence_uniformity \in 0..1000

\* C30: the indicator count of a local detection is the number of
\* occurrences of the indicator phrases in the text, also of those whose
\* comma is followed by a space or ends the text.
C30_IndicatorCountIsOccurrences ==
  \A r \in Slots :
    (req[r].route = "detect_ai" /\ req[r].invoked /\ req[r].source = "local"
     /\ req[r].text \in ScoreTexts)
    => req[r].score.indicatorCount = Occurrences(req[r].text)

\* C26: in every reachable state every account's plan is one of Free,
\* Basic, Premium and its paymentStatus is one of Pending, Paid, whatever
\* plan the registration requests supply.
C26_AccountsWellFormed ==
  \A i \in 1..Len(users) :
    /\ users[i].plan \in PlanNames
    /\ users[i].paymentStatus \in {"Pending", "Paid"}

(* ------------- the humanize accounting over the throwing model -------- *)
\* The first User model of src/models/User.js rethrows a failed query.  In
\* the humanize handler the lookup, the update and the ledger insert share
\* one try block, whose catch logs a warning and goes on to the response.

\* `await User.findById(req.user.id)`: a rejection leaves the try block.
PoolHumanizeFind(r) ==
  /\ req[r].pc = "h_find"
  /\ \E ok \in BOOLEAN :
       LET u == FindById(req[r].user.id, ok)
       IN req' = [req EXCEPT ![r] =
                    IF ~ok THEN HumanizeResponse([@ EXCEPT !.dbErr = TRUE])
                    ELSE IF u.id # 0
                    THEN [@ EXCEPT !.pc = "h_update", !.wuRead = u.wordsUsed]
                    ELSE [@ EXCEPT !.pc = "h_log"]]
  /\ UNCHANGED <<users, usage_logs, transactions>>

\* `await User.updateById(req.user.id, {wordsUsed: ...})`: a rejection
\* leaves the try block, and UsageLog.create is not reached.
PoolHumanizeUpdate(r) ==
  /\ req[r].pc = "h_update"
  /\ \E ok \in BOOLEAN :
       IF ok
       THEN /\ users' = [users EXCEPT ![req[r].user.id].wordsUsed =
                                  NewWordsUsed(req[r].wuRead, req[r].wordCount)]
            /\ req' = [req EXCEPT ![r].pc = "h_log"]
       ELSE /\ users' = users
            /\ req' = [req EXCEPT ![r] = HumanizeResponse([@ EXCEPT !.dbErr = TRUE])]
  /\ UNCHANGED <<usage_logs, transactions>>

PoolNext ==
  \E r \in Slots :
    \/ Close(r)
    \/ NoneInFlight /\ ReceiveHumanize(r)
    \/ Quiet /\ EnterHumanize(r)
    \/ Quiet /\ PoolHumanizeFind(r)
    \/ Quiet /\ PoolHumanizeUpdate(r)
    \/ Quiet /\ HumanizeLog(r)

\* Humanize requests alone, one at a time, over a store that holds two
\* accounts.
PoolSpec == DetectInit /\ [][PoolNext]_vars

\* C27: the wordsUsed update and the UsageEvent append of a humanize
\* request are independent: a request whose update fails still reaches the
\* ledger append (a step that leaves the update without changing the
\* account store goes on to the append), and when the append fails (the
\* ledger is left as it was) the account store keeps the update.
C27_IndependentWrites ==
  [][\A r \in Slots :
       /\ (req[r].pc = "h_update" /\ users' = users /\ req'[r].pc # "h_update")
            => req'[r].pc = "h_log"
       /\ (req[r].pc = "h_log" /\ req'[r].pc = "responded" /\ usage_logs' = usage_logs)
            => users' = users]_vars

C29_UniqueUsernames ==
  [][/\ \A i, j \in 1..Len(users') :
          i # j => users'[i].username # users'[j].username
     /\ Len(users') >= Len(users)
     /\ \A i \in 1..Len(users) : users'[i].username = users[i].username
     /\ \A r \in Slots :
          (/\ req[r].route = "register"
           /\ req[r].pc # "responded"
           /\ req'[r].pc = "responded" /\ req'[r].status = 201)
          => /\ ~Taken(req'[r].username)
             /\ Len(users') = Len(users) + 1
             /\ users'[Len(users')].username = req'[r].username]_vars

\* Two registrations of one username had both passed the existence check;
\* one has just been answered 201 and the other is still before its insert.
C29_Witness ==
  \E r, q \in Slots :
    /\ r # q
    /\ req[r].route = "register" /\ req[r].pc = "responded" /\ req[r].status = 201
    /\ req[q].route = "register" /\ req[q].pc = "r_create"
    /\ req[q].username = req[r].username
    /\ ~req[q].dbErr

====
